---- MODULE Spec2Model ----
(***************************************************************************)
(* Cashier-code verification flow of the smart-cart backend (server.js).  *)
(*                                                                         *)
(* The state is the document store (the CashIntent, CashierCodeHistory    *)
(* and Purchase collections), the wall clock, the HTTP requests in flight *)
(* and the response sent last.                                             *)
(*                                                                         *)
(* Every handler is an async function: other requests' store operations   *)
(* may run between two of its awaits, and nothing runs in between         *)
(* otherwise.  Each action is one store operation together with the       *)
(* handler code that leads to it and, for the last one, the response that *)
(* follows it.  A handler reads no shared state before its first store    *)
(* operation, so a request is received by the action of that operation;   *)
(* an action reads the clock once, at the instant of its operation.       *)
(* Store operations are individually atomic and are taken to succeed: the *)
(* catch branches answering 500 are not part of the model.                *)
(***************************************************************************)
EXTENDS Integers, Sequences, FiniteSets, Bags

VARIABLES
    now,          \* the wall clock, in milliseconds
    cashIntents,  \* the CashIntent collection, in store order
    history,      \* the CashierCodeHistory collection, in store order
    purchases,    \* the Purchase collection
    reqs,         \* the requests in flight (a bag: two may be equal)
    last,         \* the response sent last
    received,     \* how many requests have arrived
    accepted      \* per issued code, how often it was answered "verified"

vars == <<now, cashIntents, history, purchases, reqs, last, received, accepted>>

(* ------------------------------ bounds -------------------------------- *)

\* Number of HTTP requests received in one behaviour.
MaxReq == 3

\* Number of requests whose handlers may be in flight at the same time.
MaxInFlight == 2

(* ------------------------- program constants -------------------------- *)

\* 15 * 60 * 1000 milliseconds
EXPIRY_MS == 900000

(* ------------------------------ inputs -------------------------------- *)

\* A JSON body field is a string or a number; "" and 0 are falsy in JS.
Str(s) == [t |-> "str", s |-> s, n |-> 0]
Num(n) == [t |-> "num", s |-> "", n |-> n]

Falsy(v) == (v.t = "str" /\ v.s = "") \/ (v.t = "num" /\ v.n = 0)

Digit(d) ==
    CASE d = 0 -> "0" [] d = 1 -> "1" [] d = 2 -> "2" [] d = 3 -> "3"
      [] d = 4 -> "4" [] d = 5 -> "5" [] d = 6 -> "6" [] d = 7 -> "7"
      [] d = 8 -> "8" [] d = 9 -> "9"

RECURSIVE NatToString(_)
NatToString(n) ==
    IF n < 10 THEN Digit(n) ELSE NatToString(n \div 10) \o Digit(n % 10)

\* String(v) of JavaScript for a string or a non-negative integer.
String(v) == IF v.t = "str" THEN v.s ELSE NatToString(v.n)

Names == {"Alice"}
Mobiles == {"9990001111", "9990002222"}
Codes == {"482913", "071204"}

NameInputs == Names \cup {""}
MobileInputs == Mobiles \cup {""}
\* what a cashier may send: a code as text, a code as a number, or nothing
CodeInputs ==
    {Str(c) : c \in Codes} \cup {Num(482913), Num(71204), Num(0), Str("")}
\* the cashierCode a purchase carries
PurchaseCodeInputs == {"482913"}
ProductInputs == {"", "milk"}
MethodInputs == {"cash", "online", ""}

\* the black-box code generation policy: any code may come out, also twice
generateCashierCode == Codes

\* clock readings: an instant, the last millisecond at which a code issued
\* at that instant is accepted, and the first at which it is expired
Times == {0, EXPIRY_MS, EXPIRY_MS + 1}

(* ------------------------------ documents ----------------------------- *)

\* issuedBy is not a field of the stored document: it numbers the request
\* that wrote the document, so that one issue of a code can be told from the
\* next issue of the same code.
IntentDoc(name, mobile, code, date, expiresAt, by) ==
    [name |-> name, mobile |-> mobile, cashierCode |-> code,
     date |-> date, expiresAt |-> expiresAt, issuedBy |-> by]

NoIntent == IntentDoc("", "", "", 0, 0, 0)

\* CashierCodeHistory.create({cashierCode, mobile}): verified defaults to false
HistoryRow(code, mobile) ==
    [cashierCode |-> code, mobile |-> mobile, verified |-> FALSE,
     verifiedAt |-> 0]

\* new Purchase({name, mobile, products, paymentMethod, cashierCode})
PurchaseDoc(name, mobile, products, method, code) ==
    [name |-> name, mobile |-> mobile, products |-> products,
     paymentMethod |-> method,
     cashierCode |-> IF method = "cash" THEN code ELSE ""]

(* ------------------------- the document store ------------------------- *)

Remove(s, i) == [k \in 1..(Len(s) - 1) |-> IF k < i THEN s[k] ELSE s[k + 1]]

First(S) == CHOOSE i \in S : \A k \in S : i <= k

IntentsOf(coll, mobile) == {i \in 1..Len(coll) : coll[i].mobile = mobile}

\* a lookup that forgets the code in its filter
FindOneByMobile(coll, mobile, code) ==
    LET hits == IntentsOf(coll, mobile)
    IN  IF hits = {} THEN NoIntent ELSE coll[First(hits)]

\* CashIntent.findOne({mobile, cashierCode})
FindOne(coll, mobile, code) ==
    LET hits == {i \in IntentsOf(coll, mobile) : coll[i].cashierCode = code}
    IN  IF hits = {} THEN NoIntent ELSE coll[First(hits)]

\* an upsert that always inserts
FindOneAndUpdateInsert(coll, mobile, doc) == Append(coll, doc)

\* CashIntent.findOneAndUpdate({mobile}, doc, {upsert: true, new: true})
FindOneAndUpdate(coll, mobile, doc) ==
    LET hits == IntentsOf(coll, mobile)
    IN  IF hits = {} THEN Append(coll, doc)
        ELSE [coll EXCEPT ![First(hits)] = doc]

\* CashIntent.deleteOne({mobile})
DeleteOne(coll, mobile) ==
    LET hits == IntentsOf(coll, mobile)
    IN  IF hits = {} THEN coll ELSE Remove(coll, First(hits))

Unverified(hist, mobile, code) ==
    {i \in 1..Len(hist) : /\ hist[i].mobile = mobile
                          /\ hist[i].cashierCode = code
                          /\ hist[i].verified = FALSE}

\* updateMany in place of updateOne
UpdateMany(hist, mobile, code, t) ==
    [i \in 1..Len(hist) |->
        IF i \in Unverified(hist, mobile, code)
        THEN [hist[i] EXCEPT !.verified = TRUE, !.verifiedAt = t]
        ELSE hist[i]]

\* CashierCodeHistory.updateOne({mobile, cashierCode, verified: false},
\*                              {$set: {verified: true, verifiedAt}})
\* No sort is given: the store updates the first matching row it holds.
UpdateOne(hist, mobile, code, t) ==
    LET hits == Unverified(hist, mobile, code)
    IN  IF hits = {} THEN hist
        ELSE [hist EXCEPT ![First(hits)] =
                 [@ EXCEPT !.verified = TRUE, !.verifiedAt = t]]

(* ------------------------------ requests ------------------------------ *)

\* A request in flight: the handler's position (pc) and its locals.  code is
\* the cashier code as text: the generated one, or String(cashierCode).
Request(kind, pc, name, mobile, code, products, method, intent) ==
    [kind |-> kind, pc |-> pc, name |-> name, mobile |-> mobile,
     code |-> code, products |-> products, method |-> method,
     intent |-> intent]

\* A response: what was asked (kind, mobile, code) and the answer.
Reply(kind, mobile, code, resp) ==
    [kind |-> kind, mobile |-> mobile, code |-> code, resp |-> resp]

NoReply == Reply("", "", "", "")

Requests == BagToSet(reqs)

CanReceive(limit) == received < MaxReq /\ BagCardinality(reqs) < limit

Receive(q) == reqs (+) SetToBag({q})

Goto(r, q) == (reqs (-) SetToBag({r})) (+) SetToBag({q})

Return(r) == reqs (-) SetToBag({r})

Init ==
    /\ now = 0
    /\ cashIntents = <<>>
    /\ history = <<>>
    /\ purchases = {}
    /\ reqs = EmptyBag
    /\ last = NoReply
    /\ received = 0
    /\ accepted = [k \in 1..MaxReq |-> 0]

\* the wall clock moves forward
Tick ==
    /\ \E t \in Times : t > now /\ now' = t
    /\ UNCHANGED <<cashIntents, history, purchases, reqs, last, received,
                   accepted>>

(* --------------------------- POST /cash-intent ------------------------ *)

\* an upsert that keeps a pending intent instead of replacing it
CashIntentUpsertIfAbsent(limit) ==
    /\ CanReceive(limit)
    /\ \E name \in NameInputs, mobile \in MobileInputs :
         IF name = "" \/ mobile = ""
         THEN /\ last' = Reply("intent", "", "", "400")
              /\ UNCHANGED <<reqs, cashIntents>>
         ELSE /\ \E cashierCode \in generateCashierCode :
                   LET doc == IntentDoc(name, mobile, cashierCode, now,
                                        now + EXPIRY_MS, received + 1)
                   IN  /\ cashIntents' =
                             IF IntentsOf(cashIntents, mobile) = {}
                             THEN Append(cashIntents, doc) ELSE cashIntents
                       /\ reqs' = Receive(
                              Request("intent", "create", name, mobile,
                                      cashierCode, "", "", doc))
              /\ UNCHANGED last
    /\ received' = received + 1
    /\ UNCHANGED <<now, history, purchases, accepted>>

\* The handler up to its first await, and the store operation awaited: the
\* test of the body, generateCashierCode, the document, findOneAndUpdate.
CashIntentUpsert(limit) ==
    /\ CanReceive(limit)
    /\ \E name \in NameInputs, mobile \in MobileInputs :
         IF name = "" \/ mobile = ""
         THEN /\ last' = Reply("intent", "", "", "400")
              /\ UNCHANGED <<reqs, cashIntents>>
         ELSE /\ \E cashierCode \in generateCashierCode :
                   LET doc == IntentDoc(name, mobile, cashierCode, now,
                                        now + EXPIRY_MS, received + 1)
                   IN  /\ cashIntents' =
                             FindOneAndUpdate(cashIntents, mobile, doc)
                       /\ reqs' = Receive(
                              Request("intent", "create", name, mobile,
                                      cashierCode, "", "", doc))
              /\ UNCHANGED last
    /\ received' = received + 1
    /\ UNCHANGED <<now, history, purchases, accepted>>

CashIntentCreate(r) ==
    /\ r.kind = "intent" /\ r.pc = "create"
    /\ history' = Append(history, HistoryRow(r.code, r.mobile))
    /\ reqs' = Return(r)
    /\ last' = Reply("intent", r.mobile, r.code, "200 cashierCode")
    /\ UNCHANGED <<now, cashIntents, purchases, received, accepted>>

(* ----------------------- POST /verify-cashier-code -------------------- *)

\* The handler up to its first await and past it: the test of the body,
\* findOne, the test of its result and of the expiry.  The handler reads
\* nothing before findOne runs, so the request is received here.
VerifyFindOne(limit) ==
    /\ CanReceive(limit)
    /\ \E mobile \in MobileInputs, cashierCode \in CodeInputs :
         IF mobile = "" \/ Falsy(cashierCode)
         THEN /\ last' = Reply("verify", "", "", "400")
              /\ UNCHANGED reqs
         ELSE LET code == String(cashierCode)
                  intent == FindOne(cashIntents, mobile, code)
              IN  IF intent = NoIntent
                  THEN /\ last' = Reply("verify", mobile, code, "401 invalid")
                       /\ UNCHANGED reqs
                  ELSE /\ reqs' = Receive(
                              Request("verify",
                                      IF now > intent.expiresAt
                                      THEN "deleteExpired" ELSE "delete",
                                      "", mobile, code, "", "", intent))
                       /\ UNCHANGED last
    /\ received' = received + 1
    /\ UNCHANGED <<now, cashIntents, history, purchases, accepted>>

\* the expired branch without its deleteOne
VerifyExpiredNoDelete(r) ==
    /\ r.kind = "verify" /\ r.pc = "deleteExpired"
    /\ reqs' = Return(r)
    /\ last' = Reply("verify", r.mobile, r.code, "401 expired")
    /\ UNCHANGED <<now, cashIntents, history, purchases, received, accepted>>

VerifyDeleteExpired(r) ==
    /\ r.kind = "verify" /\ r.pc = "deleteExpired"
    /\ cashIntents' = DeleteOne(cashIntents, r.mobile)
    /\ reqs' = Return(r)
    /\ last' = Reply("verify", r.mobile, r.code, "401 expired")
    /\ UNCHANGED <<now, history, purchases, received, accepted>>

\* the accepting branch without its deleteOne
VerifyDeleteKeep(r) ==
    /\ r.kind = "verify" /\ r.pc = "delete"
    /\ reqs' = Goto(r, [r EXCEPT !.pc = "update"])
    /\ UNCHANGED <<now, cashIntents, history, purchases, last, received,
                   accepted>>

VerifyDelete(r) ==
    /\ r.kind = "verify" /\ r.pc = "delete"
    /\ cashIntents' = DeleteOne(cashIntents, r.mobile)
    /\ reqs' = Goto(r, [r EXCEPT !.pc = "update"])
    /\ UNCHANGED <<now, history, purchases, last, received, accepted>>

VerifyUpdateOne(r) ==
    /\ r.kind = "verify" /\ r.pc = "update"
    /\ history' = UpdateOne(history, r.mobile, r.code, now)
    /\ reqs' = Return(r)
    /\ last' = Reply("verify", r.mobile, r.code, "200 verified")
    /\ accepted' = [accepted EXCEPT ![r.intent.issuedBy] = @ + 1]
    /\ UNCHANGED <<now, cashIntents, purchases, received>>

(* ----------------------------- POST /purchase ------------------------- *)

\* a purchase handler that never deletes the intent
PurchaseRequestNoDelete(limit) ==
    /\ CanReceive(limit)
    /\ \E name \in NameInputs, mobile \in MobileInputs,
          products \in ProductInputs, paymentMethod \in MethodInputs,
          cashierCode \in PurchaseCodeInputs :
         IF name = "" \/ mobile = "" \/ products = "" \/ paymentMethod = ""
         THEN /\ last' = Reply("purchase", "", "", "400")
              /\ UNCHANGED <<reqs, purchases>>
         ELSE IF paymentMethod = "cash"
         THEN /\ reqs' = Receive(
                     Request("purchase", "save", name, mobile, cashierCode,
                             products, paymentMethod, NoIntent))
              /\ UNCHANGED <<last, purchases>>
         ELSE /\ purchases' = purchases \cup
                     {PurchaseDoc(name, mobile, products, paymentMethod,
                                  cashierCode)}
              /\ last' = Reply("purchase", mobile, "", "200 saved")
              /\ UNCHANGED reqs
    /\ received' = received + 1
    /\ UNCHANGED <<now, cashIntents, history, accepted>>

\* The handler up to its first await, and the store operation awaited:
\* deleteOne for a cash purchase, save for any other.
PurchaseRequest(limit) ==
    /\ CanReceive(limit)
    /\ \E name \in NameInputs, mobile \in MobileInputs,
          products \in ProductInputs, paymentMethod \in MethodInputs,
          cashierCode \in PurchaseCodeInputs :
         IF name = "" \/ mobile = "" \/ products = "" \/ paymentMethod = ""
         THEN /\ last' = Reply("purchase", "", "", "400")
              /\ UNCHANGED <<reqs, cashIntents, purchases>>
         ELSE IF paymentMethod = "cash"
         THEN /\ cashIntents' = DeleteOne(cashIntents, mobile)
              /\ reqs' = Receive(
                     Request("purchase", "save", name, mobile, cashierCode,
                             products, paymentMethod, NoIntent))
              /\ UNCHANGED <<last, purchases>>
         ELSE /\ purchases' = purchases \cup
                     {PurchaseDoc(name, mobile, products, paymentMethod,
                                  cashierCode)}
              /\ last' = Reply("purchase", mobile, "", "200 saved")
              /\ UNCHANGED <<reqs, cashIntents>>
    /\ received' = received + 1
    /\ UNCHANGED <<now, history, accepted>>

\* purchases of equal content are one element of the set
PurchaseSave(r) ==
    /\ r.kind = "purchase" /\ r.pc = "save"
    /\ purchases' = purchases \cup
           {PurchaseDoc(r.name, r.mobile, r.products, r.method, r.code)}
    /\ reqs' = Return(r)
    /\ last' = Reply("purchase", r.mobile, "", "200 saved")
    /\ UNCHANGED <<now, cashIntents, history, received, accepted>>

(* ---------------------------- specifications -------------------------- *)

Next ==
    \/ Tick
    \/ CashIntentUpsert(MaxInFlight)
    \/ VerifyFindOne(MaxInFlight)
    \/ PurchaseRequest(MaxInFlight)
    \/ \E r \in Requests : CashIntentCreate(r)
    \/ \E r \in Requests : VerifyDeleteExpired(r)
    \/ \E r \in Requests : VerifyDelete(r)
    \/ \E r \in Requests : VerifyUpdateOne(r)
    \/ \E r \in Requests : PurchaseSave(r)

\* requests arrive and are handled concurrently
Spec == Init /\ [][Next]_vars

\* requests run one after another: a request is received only when no other
\* is in flight
NextSeq ==
    \/ Tick
    \/ CashIntentUpsert(1)
    \/ VerifyFindOne(1)
    \/ PurchaseRequest(1)
    \/ \E r \in Requests : CashIntentCreate(r)
    \/ \E r \in Requests : VerifyDeleteExpired(r)
    \/ \E r \in Requests : VerifyDelete(r)
    \/ \E r \in Requests : VerifyUpdateOne(r)
    \/ \E r \in Requests : PurchaseSave(r)

SpecSeq == Init /\ [][NextSeq]_vars

(* ------------------------------- claims ------------------------------- *)

IssuedReply(m, c) == Reply("intent", m, c, "200 cashierCode")
VerifiedReply(m, c) == Reply("verify", m, c, "200 verified")
InvalidReply(m, c) == Reply("verify", m, c, "401 invalid")
ExpiredReply(m, c) == Reply("verify", m, c, "401 expired")

\* the codes a verify request can carry, as text
VerifyCodes == {String(v) : v \in {x \in CodeInputs : ~Falsy(x)}}

\* this step receives a verify request for (m, c)
VerifyArrives(m, c) ==
    /\ received' = received + 1
    /\ \/ \E q \in BagToSet(reqs') :
            /\ q.kind = "verify" /\ q.mobile = m /\ q.code = c
            /\ reqs' = reqs (+) SetToBag({q})
       \/ /\ reqs' = reqs
          /\ last'.kind = "verify" /\ last'.mobile = m /\ last'.code = c

\* this step is the last of request r: it answers and returns
Returns(r) == received' = received /\ reqs' = Return(r)

\* the intents of the mobiles other than m, in store order
Others(coll, m) == LET Other(d) == d.mobile # m IN SelectSeq(coll, Other)

NoRowVerified(hist) == \A i \in 1..Len(hist) : hist[i].verified = FALSE

\* C1: in every reachable state, under any interleaving of the requests,
\* there is at most one CashIntent per mobile number.
C1_OneIntentPerMobile ==
    \A m \in Mobiles : Cardinality(IntentsOf(cashIntents, m)) <= 1

\* two /cash-intent requests for one mobile have both run their upsert, the
\* first is still in flight, and the store holds the second's intent alone
C1_Witness ==
    \E r \in Requests :
        /\ r.kind = "intent" /\ r.pc = "create"
        /\ Cardinality(IntentsOf(cashIntents, r.mobile)) = 1
        /\ \E i \in IntentsOf(cashIntents, r.mobile) :
              cashIntents[i].issuedBy # r.intent.issuedBy

\* C2: a code issued by one /cash-intent request is answered "verified" at
\* most once, also when verify requests run concurrently.
C2_CodeConsumedOnce == \A k \in 1..MaxReq : accepted[k] <= 1

\* C3: when requests run one after another, a verify of (m, code) right
\* after /cash-intent returned code for m, before expiry, is answered
\* "verified" and leaves no CashIntent for m; the same verify repeated right
\* after is answered "invalid code".
C3_RoundTripStep ==
    \A m \in Mobiles, c \in Codes :
        \* right after the code was returned, and before expiry, the verify
        \* is taken onto the accepting path
        /\ (/\ last = IssuedReply(m, c)
            /\ VerifyArrives(m, c)
            /\ now <= FindOne(cashIntents, m, c).expiresAt)
           => \E q \in BagToSet(reqs') :
                 /\ q.kind = "verify" /\ q.mobile = m /\ q.code = c
                 /\ q.pc = "delete"
        \* the accepting path ends in "verified", with no intent left for m
        /\ \A r \in Requests :
              (r.kind = "verify" /\ r.mobile = m /\ r.code = c
                 /\ r.pc \in {"delete", "update"} /\ reqs' # reqs)
              => \/ r.pc = "delete"
                    /\ reqs' = Goto(r, [r EXCEPT !.pc = "update"])
                    /\ IntentsOf(cashIntents', m) = {}
                 \/ r.pc = "update"
                    /\ reqs' = EmptyBag
                    /\ last' = VerifiedReply(m, c)
                    /\ IntentsOf(cashIntents', m) = {}
        \* the repeated verify is answered "invalid code"
        /\ (last = VerifiedReply(m, c) /\ VerifyArrives(m, c))
           => last' = InvalidReply(m, c) /\ reqs' = reqs

C3_RoundTripState ==
    \A m \in Mobiles, c \in Codes :
        \* the code returned is the code of the stored intent
        /\ (last = IssuedReply(m, c) /\ reqs = EmptyBag)
           => FindOne(cashIntents, m, c) # NoIntent
        /\ (last = VerifiedReply(m, c) /\ reqs = EmptyBag)
           => IntentsOf(cashIntents, m) = {}

\* C3: with requests running one after another, in every state and at every
\* step: the verify right after the code was returned, before expiry, is
\* answered "verified" and leaves no CashIntent for m, and the same verify
\* repeated right after is answered "invalid code".
C3_RoundTrip == []C3_RoundTripState /\ [][C3_RoundTripStep]_vars

\* three requests, one after another: a code was issued, verified once, and
\* the repeated verify was answered "invalid code"
C3_Witness ==
    \E m \in Mobiles, c \in Codes :
        /\ received = 3 /\ reqs = EmptyBag
        /\ last = InvalidReply(m, c)
        /\ Len(history) = 1
        /\ history[1].mobile = m /\ history[1].cashierCode = c
        /\ history[1].verified = TRUE
        /\ \E k \in 1..MaxReq : accepted[k] = 1

C5_ExpiredStep ==
    /\ \A m \in Mobiles, c \in VerifyCodes :
          LET d == FindOne(cashIntents, m, c)
          IN  (VerifyArrives(m, c) /\ d # NoIntent)
              => /\ last' = last
                 /\ cashIntents' = cashIntents /\ history' = history
                 /\ reqs' = reqs (+) SetToBag({
                       Request("verify",
                               IF now > d.expiresAt
                               THEN "deleteExpired" ELSE "delete",
                               "", m, c, "", "", d)})
    /\ \A r \in Requests :
          (r.kind = "verify" /\ r.pc = "deleteExpired" /\ Returns(r))
          => /\ last' = ExpiredReply(r.mobile, r.code)
             /\ IntentsOf(cashIntents', r.mobile) = {}
             /\ history' = history
             /\ accepted' = accepted
    /\ \A r \in Requests :
          (r.kind = "verify" /\ Returns(r)
             /\ last' = VerifiedReply(r.mobile, r.code))
          => r.pc = "update"

\* C5: at every step, a verify matching a stored intent past its expiresAt
\* is answered "code expired", removes the intent and marks no history row,
\* and only a verify with now <= expiresAt is accepted.
C5_Expired == [][C5_ExpiredStep]_vars

\* a verify was answered "code expired": the intent is gone and the row of
\* the code is still unverified
C5_Witness ==
    \E m \in Mobiles, c \in Codes :
        /\ last = ExpiredReply(m, c)
        /\ IntentsOf(cashIntents, m) = {}
        /\ \E i \in 1..Len(history) :
              /\ history[i].mobile = m /\ history[i].cashierCode = c
              /\ history[i].verified = FALSE

\* C6: a verify of (m, c) while a CashIntent exists for m with another code
\* is answered "invalid code" and leaves the whole store unchanged.
C6_WrongCodeStep ==
    \A m \in Mobiles, c \in VerifyCodes :
        (/\ VerifyArrives(m, c)
         /\ IntentsOf(cashIntents, m) # {}
         /\ \A i \in IntentsOf(cashIntents, m) : cashIntents[i].cashierCode # c)
        => /\ last' = InvalidReply(m, c)
           /\ reqs' = reqs
           /\ UNCHANGED <<cashIntents, history, purchases, accepted>>

\* C6: at every step, a verify with a code other than the stored one is
\* answered "invalid code" and changes nothing in the store.
C6_WrongCode == [][C6_WrongCodeStep]_vars

\* a verify with the wrong code was answered "invalid code" while the intent
\* of that mobile, already expired, is still stored
C6_Witness ==
    \E m \in Mobiles, c \in VerifyCodes :
        /\ last = InvalidReply(m, c)
        /\ \E i \in IntentsOf(cashIntents, m) :
              /\ cashIntents[i].cashierCode # c
              /\ now > cashIntents[i].expiresAt

\* this step is the updateOne of the accepted verify request r
UpdateStep(r) ==
    r.kind = "verify" /\ r.pc = "update" /\ Returns(r)
        /\ last' = VerifiedReply(r.mobile, r.code)

\* the rows that differ between history and history'
Changed == {i \in 1..Len(history) : history'[i] # history[i]}

\* C7 as stated: of several unverified rows matching mobile and code, the
\* row set to verified is the most recently created one.
C7_MostRecentStep ==
    \A r \in Requests :
        LET hits == Unverified(history, r.mobile, r.code)
        IN  (UpdateStep(r) /\ hits # {})
            => /\ Len(history') = Len(history)
               /\ Changed = {CHOOSE i \in hits : \A k \in hits : k <= i}

C7_FirstMatchStep ==
    \A r \in Requests :
        LET hits == Unverified(history, r.mobile, r.code)
        IN  (UpdateStep(r) /\ hits # {})
            => /\ Len(history') = Len(history)
               /\ Changed = {First(hits)}
               /\ history'[First(hits)] =
                     [history[First(hits)] EXCEPT
                         !.verified = TRUE, !.verifiedAt = now]

C8_PurchaseStep ==
    /\ \A m \in Mobiles :
          \* a cash purchase arrives: its deleteOne runs
          /\ \A q \in BagToSet(reqs') :
                (/\ received' = received + 1
                 /\ q.kind = "purchase" /\ q.mobile = m
                 /\ reqs' = reqs (+) SetToBag({q}))
                => /\ q.method = "cash"
                   /\ IntentsOf(cashIntents', m) = {}
                   /\ Others(cashIntents', m) = Others(cashIntents, m)
                   /\ history' = history /\ accepted' = accepted
          \* a purchase paid otherwise is saved at once
          /\ (/\ received' = received + 1 /\ reqs' = reqs
              /\ last' = Reply("purchase", m, "", "200 saved"))
             => /\ cashIntents' = cashIntents
                /\ history' = history /\ accepted' = accepted
                /\ \E d \in purchases' : d.mobile = m /\ d.paymentMethod # "cash"
    \* the save of a cash purchase
    /\ \A r \in Requests :
          (r.kind = "purchase" /\ Returns(r))
          => /\ cashIntents' = cashIntents
             /\ history' = history /\ accepted' = accepted

\* C8: at every step, a cash purchase for m removes the CashIntent of m
\* and nothing else, and any other purchase leaves the intents unchanged.
C8_Purchase == [][C8_PurchaseStep]_vars

\* a cash purchase for m was saved before expiry and without any verify
\* accepted: the code issued for m is unverified and its intent is gone
C8_Witness ==
    \E m \in Mobiles :
        /\ last = Reply("purchase", m, "", "200 saved")
        /\ \E d \in purchases : d.mobile = m /\ d.paymentMethod = "cash"
        /\ now = 0 /\ NoRowVerified(history)
        /\ \E i \in 1..Len(history) : history[i].mobile = m
        /\ IntentsOf(cashIntents, m) = {}
        /\ reqs = EmptyBag

\* C9: whenever a verify of (m, code) is answered "verified", a history row
\* of m and that code has verified = true.
C9_VerifiedIsRecorded ==
    \A m \in Mobiles, c \in VerifyCodes :
        last = VerifiedReply(m, c)
        => \E i \in 1..Len(history) :
              /\ history[i].mobile = m /\ history[i].cashierCode = c
              /\ history[i].verified = TRUE

\* this step is the deleteOne of the verify request r
DeleteStep(r) ==
    /\ r.kind = "verify" /\ received' = received
    /\ \/ r.pc = "delete" /\ reqs' = Goto(r, [r EXCEPT !.pc = "update"])
       \/ r.pc = "deleteExpired" /\ Returns(r)

\* C10: the deleteOne of a verify request removes only the intent the
\* request matched: an intent issued since is still stored after it.
C10_RemovesOnlyMatchedStep ==
    \A r \in Requests :
        DeleteStep(r)
        => \A i \in 1..Len(cashIntents) :
              cashIntents[i].issuedBy # r.intent.issuedBy
              => \E j \in 1..Len(cashIntents') :
                    cashIntents'[j] = cashIntents[i]

\* C10: at every step, the deleteOne of a verify request leaves every intent
\* stored that is not the one the request matched.
C10_RemovesOnlyMatched == [][C10_RemovesOnlyMatchedStep]_vars

====
